---- MODULE Spec2Model ----
(***************************************************************************)
(* Model of the Aden TUI dashboard (core/framework/tui): the execution     *)
(* state kept by GraphOverview (active_node, execution_path and the        *)
(* contents of its RichLog display), the event handler of AdenTUI that     *)
(* feeds it, and the hand-off of runtime events from producer threads to   *)
(* the UI thread through App.call_from_thread.                             *)
(***************************************************************************)
EXTENDS Integers, Sequences, FiniteSets, TLC

\* ------------------------------------------------------------------------
\* Bounds
\* ------------------------------------------------------------------------

\* number of events delivered to the handler in one behaviour of Spec
MaxEvents == 3

\* number of calls of the subscription handler in one behaviour of SpecBridge
MaxSubmit == 4

\* number of logging calls in one behaviour of SpecLog and SpecLifecycle
MaxPush == 3

\* number of calls of on_mount in one behaviour of SpecLifecycle
MaxStarts == 2

\* number of calls of on_unmount in one behaviour of SpecLifecycle
MaxStops == 2

\* exceptions raised by the view layer in one run
MaxFaults == 2

\* events delivered in one run of the path specification
MaxPathEvents == 6

\* ------------------------------------------------------------------------
\* Values
\* ------------------------------------------------------------------------

\* Python's None
None == "<None>"

\* node ids of runtime.graph.nodes
Nodes == {"n1", "n2"}

\* values an event carries under data["node_id"]: a graph node or the
\* empty string
NodeIdValues == Nodes \cup {""}

\* values an event carries under data["error"]
Errors == {"boom"}

\* producer threads of the runtime
Producers == {"A", "B"}

\* number of path entries the rendered "Path:" line shows
PathTail == 5

\* levels of the logging module
DEBUG == 10

INFO == 20

WARNING == 30

CRITICAL == 50

\* truth value of a Python object used as a condition (None and "" are falsy)
Truthy(x) == x # None /\ x # ""

\* dict.get(key, default)
Get(d, key, default) == IF key \in DOMAIN d THEN d[key] ELSE default

\* hasattr(obj, name)
HasAttr(obj, name) == name \in DOMAIN obj

\* str.startswith(prefixes), each prefix being one word followed by "_";
\* a string is modelled by the sequence of its "_"-separated words
StartsWith(v, prefixWords) == Len(v) >= 2 /\ v[1] \in prefixWords

Range(s) == {s[i] : i \in 1..Len(s)}

Last(s) == s[Len(s)]

\* s[-n:]
LastN(s, n) == IF Len(s) <= n THEN s ELSE SubSeq(s, Len(s) - n + 1, Len(s))

\* ------------------------------------------------------------------------
\* Events (framework.runtime.event_bus.EventType members, by name and value)
\* ------------------------------------------------------------------------

NODE_STARTED == [name |-> "NODE_STARTED", value |-> <<"node", "started">>]

NODE_COMPLETED == [name |-> "NODE_COMPLETED", value |-> <<"node", "completed">>]

EXECUTION_COMPLETED == [name |-> "EXECUTION_COMPLETED", value |-> <<"execution", "completed">>]

EXECUTION_FAILED == [name |-> "EXECUTION_FAILED", value |-> <<"execution", "failed">>]

\* a member of the execution_* family the graph view has no branch for
EXECUTION_STARTED == [name |-> "EXECUTION_STARTED", value |-> <<"execution", "started">>]

\* a member outside the node_* and execution_* families
GOAL_PROGRESS == [name |-> "GOAL_PROGRESS", value |-> <<"goal", "progress">>]

\* a type object that is no enum member: it has no value attribute
RawType == [name |-> "raw"]

NodeStarted(n) == [type |-> NODE_STARTED, data |-> [node_id |-> n]]

NodeCompleted(n) == [type |-> NODE_COMPLETED, data |-> [node_id |-> n]]

ExecutionCompleted == [type |-> EXECUTION_COMPLETED, data |-> <<>>]

ExecutionFailed(err) == [type |-> EXECUTION_FAILED, data |-> [error |-> err]]

\* the events a delivery may carry
Events ==
    {NodeStarted(n) : n \in NodeIdValues}
    \cup {NodeCompleted(n) : n \in NodeIdValues}
    \cup {[type |-> NODE_STARTED, data |-> <<>>],
          [type |-> NODE_COMPLETED, data |-> <<>>]}
    \cup {ExecutionCompleted}
    \cup {ExecutionFailed(err) : err \in Errors}
    \cup {[type |-> EXECUTION_FAILED, data |-> <<>>]}
    \cup {[type |-> EXECUTION_STARTED, data |-> <<>>],
          [type |-> GOAL_PROGRESS, data |-> <<>>],
          [type |-> RawType, data |-> <<>>],
          [data |-> <<>>]}

\* the events the producers of SpecBridge submit
BridgeEvents ==
    {NodeStarted("n1"), NodeStarted("n2"), NodeCompleted("n1")}

\* ------------------------------------------------------------------------
\* Log records
\* ------------------------------------------------------------------------

\* A logger name is modelled by its chunks <<head>> or <<head, sep, rest>>:
\* head is the part a prefix test looks at, sep is "." for a child logger
\* and any other text for a name that merely continues the head.
LoggerNames ==
    {<<"framework">>, <<"textual">>, <<"litellm">>, <<"LiteLLM">>,
     <<"LiteLLM", " ", "Router">>}

\* the logging calls of the producers, by logger name and level
LogInputs ==
    {[name |-> <<"framework">>, level |-> DEBUG],
     [name |-> <<"framework">>, level |-> INFO],
     [name |-> <<"textual">>, level |-> INFO],
     [name |-> <<"litellm">>, level |-> INFO],
     [name |-> <<"LiteLLM">>, level |-> CRITICAL],
     [name |-> <<"LiteLLM", " ", "Router">>, level |-> INFO]}

\* the handler the root logger has before the dashboard starts
StreamHandler == [kind |-> "stream", level |-> 0]

\* the QueueHandler made by the k-th call of _setup_logging_queue
QueueHandler(k) == [kind |-> "queue", id |-> k, level |-> INFO]

\* ------------------------------------------------------------------------
\* State
\* ------------------------------------------------------------------------

VARIABLES
    phase,           \* lifecycle of the app: created, composed, mounted, unmounted
    is_ready,        \* AdenTUI.is_ready
    subscribed,      \* the runtime holds safe_event_handler as a subscriber
    active_node,     \* GraphOverview.active_node
    execution_path,  \* GraphOverview.execution_path
    display,         \* lines of the #graph-display RichLog
    loop_queue,      \* callbacks scheduled on the UI thread by call_from_thread
    pc,              \* per producer: idle, or waiting in call_from_thread
    submitted,       \* history: calls of safe_event_handler, in order
    handled,         \* history: calls of _handle_event_sync, [seq, event]
    applied,         \* history: calls of update_execution, [seq, event]
    log_queue,       \* AdenTUI.log_queue
    log_view,        \* messages written to the #main-log RichLog
    logged,          \* history: logging calls, [name, level, msg, enqueued]
    root_handlers,   \* handlers of the root logger
    root_level,      \* level of the root logger
    queue_handler,   \* AdenTUI.queue_handler: 0 without the attribute, else k
    litellm_level,   \* level of the "LiteLLM" logger
    litellm_propagate, \* propagate flag of the "LiteLLM" logger
    timers,          \* number of interval timers that call _poll_logs
    init_pending,    \* calls of _init_runtime_connection scheduled by call_later
    subscriptions,   \* number of handlers the runtime holds for this app
    starts,          \* history: number of calls of on_mount
    stops,           \* history: number of calls of on_unmount
    escaped,         \* history: exceptions that left a handler, by handler
    caught,          \* history: the except clauses that caught an exception, in order
    prior            \* history: handlers and level of the root logger before the first on_mount

graphVars == <<active_node, execution_path, display>>

bridgeVars == <<loop_queue, pc, submitted, handled, applied>>

logVars == <<log_queue, log_view, logged>>

sinkVars == <<root_handlers, root_level, queue_handler, litellm_level,
              litellm_propagate>>

lifeVars == <<timers, init_pending, subscriptions, starts, stops>>

vars == <<phase, is_ready, subscribed, active_node, execution_path, display,
          loop_queue, pc, submitted, handled, applied, logVars, sinkVars,
          lifeVars, escaped, caught, prior>>

\* the fields of GraphOverview the event handler works on
GraphState == [active_node |-> active_node,
               execution_path |-> execution_path,
               display |-> display]

\* ------------------------------------------------------------------------
\* GraphOverview
\* ------------------------------------------------------------------------

\* the marker _display_graph puts in front of a node
NodeMark(st, n) ==
    IF st.active_node = n THEN "active"
    ELSE IF n \in Range(st.execution_path) THEN "visited"
    ELSE "plain"

\* _display_graph cutting the stored path down to the entries it shows
DisplayGraphTruncates(st) ==
    [st EXCEPT !.execution_path = LastN(st.execution_path, PathTail),
               !.display =
        <<[k |-> "graph"],
          [k |-> "nodes", marks |-> [n \in Nodes |-> NodeMark(st, n)]]>>
        \o (IF Truthy(st.active_node)
            THEN <<[k |-> "blank"], [k |-> "executing", node |-> st.active_node]>>
            ELSE <<>>)
        \o (IF st.execution_path # <<>>
            THEN <<[k |-> "path", tail |-> LastN(st.execution_path, PathTail)]>>
            ELSE <<>>)]

\* _display_graph: clear the display and write the graph again
DisplayGraph(st) ==
    [st EXCEPT !.display =
        <<[k |-> "graph"],
          [k |-> "nodes", marks |-> [n \in Nodes |-> NodeMark(st, n)]]>>
        \o (IF Truthy(st.active_node)
            THEN <<[k |-> "blank"], [k |-> "executing", node |-> st.active_node]>>
            ELSE <<>>)
        \o (IF st.execution_path # <<>>
            THEN <<[k |-> "path", tail |-> LastN(st.execution_path, PathTail)]>>
            ELSE <<>>)]

\* update_active_node with the path extended whenever its last entry differs
UpdateActiveNodeLastDiffers(st, node_id) ==
    DisplayGraph(
        [st EXCEPT !.active_node = node_id,
                   !.execution_path =
                       IF st.execution_path = <<>> \/ Last(st.execution_path) # node_id
                       THEN Append(st.execution_path, node_id)
                       ELSE st.execution_path])

\* update_active_node with the path extended on every call
UpdateActiveNodeAlways(st, node_id) ==
    DisplayGraph(
        [st EXCEPT !.active_node = node_id,
                   !.execution_path = Append(st.execution_path, node_id)])

\* update_active_node
UpdateActiveNode(st, node_id) ==
    DisplayGraph(
        [st EXCEPT !.active_node = node_id,
                   !.execution_path =
                       IF node_id \notin Range(st.execution_path)
                       THEN Append(st.execution_path, node_id)
                       ELSE st.execution_path])

\* the NODE_STARTED branch with the test of node_id left out
OnNodeStartedUnchecked(st, event) ==
    UpdateActiveNode(st, Get(event.data, "node_id", None))

\* the NODE_STARTED branch of update_execution
OnNodeStarted(st, event) ==
    LET node_id == Get(event.data, "node_id", None)
    IN  IF Truthy(node_id) THEN UpdateActiveNode(st, node_id) ELSE st

\* the NODE_COMPLETED branch with the comparison to active_node left out
OnNodeCompletedAny(st, event) ==
    LET node_id == Get(event.data, "node_id", None)
    IN  IF Truthy(node_id)
        THEN DisplayGraph([st EXCEPT !.active_node = None])
        ELSE st

\* the NODE_COMPLETED branch rendering again without clearing active_node
OnNodeCompletedNoClear(st, event) ==
    LET node_id == Get(event.data, "node_id", None)
    IN  IF Truthy(node_id) /\ node_id = st.active_node
        THEN DisplayGraph(st)
        ELSE st

\* the NODE_COMPLETED branch of update_execution
OnNodeCompleted(st, event) ==
    LET node_id == Get(event.data, "node_id", None)
    IN  IF Truthy(node_id) /\ node_id = st.active_node
        THEN DisplayGraph([st EXCEPT !.active_node = None])
        ELSE st

\* the EXECUTION_COMPLETED branch without the reset of active_node
OnExecutionCompletedNoReset(st) ==
    [st EXCEPT !.display = st.display \o <<[k |-> "blank"], [k |-> "complete"]>>]

\* the EXECUTION_COMPLETED branch of update_execution
OnExecutionCompleted(st) ==
    [st EXCEPT !.display = st.display \o <<[k |-> "blank"], [k |-> "complete"]>>,
               !.active_node = None]

\* the EXECUTION_FAILED branch writing the default text for every failure
OnExecutionFailedDefaultText(st, event) ==
    [st EXCEPT !.display = st.display \o <<[k |-> "blank"],
                                           [k |-> "failed", error |-> "Unknown error"]>>,
               !.active_node = None]

\* the EXECUTION_FAILED branch of update_execution
OnExecutionFailed(st, event) ==
    LET error == Get(event.data, "error", "Unknown error")
    IN  [st EXCEPT !.display = st.display \o <<[k |-> "blank"],
                                               [k |-> "failed", error |-> error]>>,
                   !.active_node = None]

\* update_execution
UpdateExecution(st, event) ==
    IF event.type = NODE_STARTED THEN OnNodeStarted(st, event)
    ELSE IF event.type = NODE_COMPLETED THEN OnNodeCompleted(st, event)
    ELSE IF event.type = EXECUTION_COMPLETED THEN OnExecutionCompleted(st)
    ELSE IF event.type = EXECUTION_FAILED THEN OnExecutionFailed(st, event)
    ELSE st

\* ------------------------------------------------------------------------
\* AdenTUI
\* ------------------------------------------------------------------------

\* the test of _handle_event_sync with the readiness flag read the wrong
\* way round
ReachesGraphViewUnready(ready, event) ==
    /\ ~ready
    /\ HasAttr(event, "type")
    /\ HasAttr(event.type, "value")
    /\ StartsWith(event.type.value, {"execution", "node"})

\* the test of _handle_event_sync that lets an event through to the graph view
ReachesGraphView(ready, event) ==
    /\ ready
    /\ HasAttr(event, "type")
    /\ HasAttr(event.type, "value")
    /\ StartsWith(event.type.value, {"execution", "node"})

\* _handle_event_sync
HandleEventSync(seq, event) ==
    LET st == IF ReachesGraphView(is_ready, event)
              THEN UpdateExecution(GraphState, event)
              ELSE GraphState
    IN  /\ active_node' = st.active_node
        /\ execution_path' = st.execution_path
        /\ display' = st.display
        /\ applied' = IF ReachesGraphView(is_ready, event)
                      THEN Append(applied, [seq |-> seq, event |-> event])
                      ELSE applied
        /\ UNCHANGED is_ready

\* GraphOverview.on_mount: the first rendering of the graph
GraphOnMount ==
    /\ phase = "created"
    /\ phase' = "composed"
    /\ display' = DisplayGraph(GraphState).display
    /\ UNCHANGED <<is_ready, subscribed, active_node, execution_path,
                   bridgeVars, logVars, sinkVars, lifeVars, escaped, caught, prior>>

\* removal of every handler the root logger has (the loop of
\* _setup_logging_queue), without effect
KeepHandlers(handlers) == handlers

\* removal of every handler the root logger has (the loop of
\* _setup_logging_queue)
RemoveAllHandlers(handlers) == {}

\* _setup_logging_queue, as the k-th call of it
SetupLoggingQueue(k) ==
    /\ log_queue' = <<>>
    /\ queue_handler' = k
    /\ root_handlers' = RemoveAllHandlers(root_handlers) \cup {QueueHandler(k)}
    /\ root_level' = INFO
    /\ litellm_level' = CRITICAL
    /\ litellm_propagate' = FALSE
    /\ timers' = timers + 1

\* the body of on_mount
OnMountBody ==
    /\ SetupLoggingQueue(starts + 1)
    /\ is_ready' = TRUE
    /\ init_pending' = init_pending + 1
    /\ starts' = starts + 1
    /\ UNCHANGED <<subscribed, subscriptions, stops, graphVars, bridgeVars,
                   log_view, logged, escaped, caught>>
    /\ prior' = IF starts = 0
                THEN [handlers |-> root_handlers, level |-> root_level]
                ELSE prior

\* AdenTUI.on_mount, called by the toolkit once the widgets are mounted
OnMount ==
    /\ phase = "composed"
    /\ phase' = "mounted"
    /\ OnMountBody

\* _init_runtime_connection, scheduled through call_later by on_mount
InitRuntimeConnection ==
    /\ phase = "mounted"
    /\ init_pending > 0
    /\ init_pending' = init_pending - 1
    /\ subscribed' = TRUE
    /\ subscriptions' = subscriptions + 1
    /\ UNCHANGED <<phase, is_ready, graphVars, bridgeVars, logVars, sinkVars,
                   timers, starts, stops, escaped, caught, prior>>

\* logging.getLogger().removeHandler(handler), without effect
RemoveHandlerNot(handlers, handler) == handlers

\* logging.getLogger().removeHandler(handler)
RemoveHandler(handlers, handler) == handlers \ {handler}

\* the body of on_unmount
OnUnmountBody ==
    /\ is_ready' = FALSE
    /\ root_handlers' = IF queue_handler # 0
                        THEN RemoveHandler(root_handlers, QueueHandler(queue_handler))
                        ELSE root_handlers
    /\ stops' = stops + 1
    /\ UNCHANGED <<subscribed, graphVars, bridgeVars, logVars, root_level,
                   queue_handler, litellm_level, litellm_propagate, timers,
                   init_pending, subscriptions, starts, escaped, caught, prior>>

\* AdenTUI.on_unmount, called by the toolkit when the app shuts down
OnUnmount ==
    /\ phase = "mounted"
    /\ phase' = "unmounted"
    /\ OnUnmountBody

\* the UI thread runs _handle_event_sync on one event of the subscription
Deliver(event) ==
    /\ subscribed
    /\ Len(handled) < MaxEvents
    /\ handled' = Append(handled, [seq |-> Len(handled) + 1, event |-> event])
    /\ HandleEventSync(Len(handled) + 1, event)
    /\ UNCHANGED <<phase, subscribed, loop_queue, pc, submitted, logVars,
                   sinkVars, lifeVars, escaped, caught, prior>>

\* call_from_thread with the callback put in front of the scheduled ones
HandoffFront(queue, entry) == <<entry>> \o queue

\* call_from_thread: the callback goes to the end of the UI thread's
\* queue of scheduled callbacks
Handoff(queue, entry) == Append(queue, entry)

\* safe_event_handler on producer p: call_from_thread schedules
\* _handle_event_sync on the UI thread and p waits for its result
SubmitHandoff(p, event) ==
    /\ subscribed
    /\ pc[p] = "idle"
    /\ Len(submitted) < MaxSubmit
    /\ submitted' = Append(submitted,
                           [producer |-> p, event |-> event, handed_off |-> TRUE])
    /\ loop_queue' = Handoff(loop_queue,
                             [seq |-> Len(submitted) + 1, producer |-> p, event |-> event])
    /\ pc' = [pc EXCEPT ![p] = "waiting"]
    /\ UNCHANGED <<phase, is_ready, subscribed, active_node, execution_path,
                   display, handled, applied, logVars, sinkVars, lifeVars,
                   escaped, caught, prior>>

\* safe_event_handler without its try/except: the exception goes on to
\* the caller, the runtime's producer thread
SafeEventHandlerNoExcept(raised) == {[from |-> "safe_event_handler", exc |-> raised]}

\* the try/except of safe_event_handler: the exception raised in its body
\* is written to the debug file and nothing leaves the handler
SafeEventHandlerExcept(raised) == {}

\* safe_event_handler on producer p: call_from_thread raises (the app is
\* not running, or p is the UI thread itself); the handler catches the
\* exception, writes it to the debug file and returns
SubmitRaises(p, event) ==
    /\ subscribed
    /\ pc[p] = "idle"
    /\ Len(submitted) < MaxSubmit
    /\ submitted' = Append(submitted,
                           [producer |-> p, event |-> event, handed_off |-> FALSE])
    /\ UNCHANGED <<phase, is_ready, subscribed, active_node, execution_path,
                   display, loop_queue, pc, handled, applied, logVars, sinkVars,
                   lifeVars>>
    /\ escaped' = escaped \cup SafeEventHandlerExcept("call_from_thread")
    /\ UNCHANGED <<caught, prior>>

\* the UI thread runs the next scheduled callback: _handle_event_sync on
\* the event, after which the producer's call_from_thread returns
Dispatch ==
    /\ loop_queue # <<>>
    /\ LET entry == Head(loop_queue)
       IN  /\ handled' = Append(handled, [seq |-> entry.seq, event |-> entry.event])
           /\ HandleEventSync(entry.seq, entry.event)
           /\ pc' = [pc EXCEPT ![entry.producer] = "idle"]
    /\ loop_queue' = Tail(loop_queue)
    /\ UNCHANGED <<phase, subscribed, submitted, logVars, sinkVars, lifeVars,
                   escaped, caught, prior>>

\* ------------------------------------------------------------------------
\* Log relay
\* ------------------------------------------------------------------------

\* the logger is "LiteLLM" or one of its children
InLiteLLMTree(name) == name[1] = "LiteLLM" /\ (Len(name) = 1 \/ name[2] = ".")

\* Logger.getEffectiveLevel for a logger without a level of its own: the
\* level of "LiteLLM" inside its tree once that is set, else the root's
EffectiveLevel(name, rootLevel, litellmLevel) ==
    IF InLiteLLMTree(name) /\ litellmLevel # 0 THEN litellmLevel ELSE rootLevel

\* Logger.callHandlers: the record travels up to the root logger unless a
\* logger on the way has propagate = False
ReachesRoot(name, litellmPropagate) == ~(InLiteLLMTree(name) /\ ~litellmPropagate)

\* the logging call reaches the QueueHandler of the app and passes its level
ReachesQueue(input) ==
    /\ input.level >= EffectiveLevel(input.name, root_level, litellm_level)
    /\ ReachesRoot(input.name, litellm_propagate)
    /\ queue_handler # 0
    /\ QueueHandler(queue_handler) \in root_handlers
    /\ input.level >= QueueHandler(queue_handler).level

\* a queue that holds two records and gives up its oldest for a new one
EnqueueDropOldest(queue, record) ==
    IF Len(queue) >= 2 THEN Append(Tail(queue), record) ELSE Append(queue, record)

\* QueueHandler.enqueue: put_nowait on the queue.Queue() of the app, which
\* has no maximum size
Enqueue(queue, record) == Append(queue, record)

\* a logging call of any thread; its message is the number of the call
Push(input) ==
    /\ Len(logged) < MaxPush
    /\ LET record == [name |-> input.name, level |-> input.level,
                      msg |-> Len(logged) + 1]
       IN  /\ log_queue' = IF ReachesQueue(input)
                           THEN Enqueue(log_queue, record)
                           ELSE log_queue
           /\ logged' = Append(logged, [name |-> input.name, level |-> input.level,
                                        msg |-> Len(logged) + 1,
                                        enqueued |-> ReachesQueue(input)])
    /\ UNCHANGED <<phase, is_ready, subscribed, graphVars, bridgeVars, log_view,
                   sinkVars, lifeVars, escaped, caught, prior>>

\* the name test of _poll_logs without the lower-case litellm prefix
IsNoiseTwoPrefixes(record) == record.name[1] \in {"textual", "LiteLLM"}

\* the name test of _poll_logs:
\* record.name.startswith(("textual", "LiteLLM", "litellm"))
IsNoise(record) == record.name[1] \in {"textual", "LiteLLM", "litellm"}

\* logging.Formatter().format(record): the default format is the message
Format(record) == record.msg

\* the widgets of the app are mounted before on_mount is called
LogPaneMounted == phase # "created"

\* LogPane.write_log
WriteLog(view, message, mounted) ==
    IF ~mounted THEN view ELSE Append(view, message)

\* the loop of _poll_logs taking the newest record first
RECURSIVE DrainNewestFirst(_, _, _)
DrainNewestFirst(view, queue, mounted) ==
    IF queue = <<>> THEN view
    ELSE LET record == queue[Len(queue)]
             rest == SubSeq(queue, 1, Len(queue) - 1)
         IN  IF IsNoise(record) THEN DrainNewestFirst(view, rest, mounted)
             ELSE DrainNewestFirst(WriteLog(view, Format(record), mounted), rest, mounted)

\* the loop of _poll_logs: get_nowait until the queue is empty
RECURSIVE Drain(_, _, _)
Drain(view, queue, mounted) ==
    IF queue = <<>> THEN view
    ELSE LET record == Head(queue)
         IN  IF IsNoise(record) THEN Drain(view, Tail(queue), mounted)
             ELSE Drain(WriteLog(view, Format(record), mounted), Tail(queue), mounted)

\* _poll_logs, called by an interval timer
PollLogs ==
    /\ timers > 0
    /\ IF ~is_ready
       THEN UNCHANGED <<log_queue, log_view>>
       ELSE /\ log_view' = Drain(log_view, log_queue, LogPaneMounted)
            /\ log_queue' = <<>>
    /\ UNCHANGED <<phase, is_ready, subscribed, graphVars, bridgeVars, logged,
                   sinkVars, lifeVars, escaped, caught, prior>>

\* the state after AdenTUI.__init__, the root logger having these handlers
InitWith(handlers) ==
    /\ phase = "created"
    /\ is_ready = FALSE
    /\ subscribed = FALSE
    /\ active_node = None
    /\ execution_path = <<>>
    /\ display = <<>>
    /\ loop_queue = <<>>
    /\ pc = [p \in Producers |-> "idle"]
    /\ submitted = <<>>
    /\ handled = <<>>
    /\ applied = <<>>
    /\ log_queue = <<>>
    /\ log_view = <<>>
    /\ logged = <<>>
    /\ root_handlers = handlers
    /\ root_level = WARNING
    /\ queue_handler = 0
    /\ litellm_level = 0
    /\ litellm_propagate = TRUE
    /\ timers = 0
    /\ init_pending = 0
    /\ subscriptions = 0
    /\ starts = 0
    /\ stops = 0
    /\ escaped = {}
    /\ caught = <<>>
    /\ prior = [handlers |-> root_handlers, level |-> root_level]

\* the app is constructed in a process that logs to a stream handler
Init == InitWith({StreamHandler})

\* the app is constructed in a process whose root logger has a stream
\* handler or none
InitLifecycle == \E handlers \in {{}, {StreamHandler}} : InitWith(handlers)

Next ==
    \/ GraphOnMount
    \/ OnMount
    \/ InitRuntimeConnection
    \/ OnUnmount
    \/ \E event \in Events : Deliver(event)

Spec == Init /\ [][Next]_vars

NextBridge ==
    \/ GraphOnMount
    \/ OnMount
    \/ InitRuntimeConnection
    \/ OnUnmount
    \/ \E p \in Producers, event \in BridgeEvents : SubmitHandoff(p, event)
    \/ \E p \in Producers, event \in BridgeEvents : SubmitRaises(p, event)
    \/ Dispatch

SpecBridge == Init /\ [][NextBridge]_vars

NextLog ==
    \/ GraphOnMount
    \/ OnMount
    \/ InitRuntimeConnection
    \/ OnUnmount
    \/ \E input \in LogInputs : Push(input)
    \/ PollLogs

SpecLog == Init /\ [][NextLog]_vars

\* ------------------------------------------------------------------------
\* Long execution paths
\* ------------------------------------------------------------------------

\* node ids the runtime reports: the nodes of the graph and further ids
PathNodes == Nodes \cup {"n3", "n4", "n5", "n6"}

\* the events of the path specification
PathEvents == {NodeStarted(n) : n \in PathNodes} \cup {NodeCompleted("n1")}

\* the UI thread runs _handle_event_sync on one event of the subscription
DeliverPath(event) ==
    /\ subscribed
    /\ Len(handled) < MaxPathEvents
    /\ handled' = Append(handled, [seq |-> Len(handled) + 1, event |-> event])
    /\ HandleEventSync(Len(handled) + 1, event)
    /\ UNCHANGED <<phase, subscribed, loop_queue, pc, submitted, logVars,
                   sinkVars, lifeVars, escaped, caught, prior>>

NextPath ==
    \/ GraphOnMount
    \/ OnMount
    \/ InitRuntimeConnection
    \/ \E event \in PathEvents : DeliverPath(event)

SpecPath == Init /\ [][NextPath]_vars

\* the logging calls of the lifecycle specification
LifecycleLogInputs == {input \in LogInputs : input.name = <<"framework">>}

\* ------------------------------------------------------------------------
\* Failures of the view layer
\* ------------------------------------------------------------------------

\* update_execution gets as far as _display_graph
Renders(st, event) ==
    LET node_id == Get(event.data, "node_id", None)
    IN  \/ event.type = NODE_STARTED /\ Truthy(node_id)
        \/ event.type = NODE_COMPLETED /\ Truthy(node_id) /\ node_id = st.active_node

\* what update_execution leaves behind when a call of the display raises:
\* nothing done (query_one raised), the fields assigned and the display as
\* far as it was written (clear or a write of _display_graph raised), or
\* the first line of a banner written and active_node not yet reset
UpdateExecutionRaises(st, event) ==
    LET full == UpdateExecution(st, event)
    IN  {st}
        \cup (IF Renders(st, event)
              THEN {[full EXCEPT !.display = st.display]}
                   \cup {[full EXCEPT !.display = SubSeq(full.display, 1, k)] :
                            k \in 0..(Len(full.display) - 1)}
              ELSE {})
        \cup (IF event.type \in {EXECUTION_COMPLETED, EXECUTION_FAILED}
              THEN {[st EXCEPT !.display = Append(st.display, [k |-> "blank"])]}
              ELSE {})

\* the try/except of _handle_event_sync: the exception and its traceback
\* are written to the debug file
HandleEventSyncExcept(raised) == {}

\* the events of the failure specification
FaultEvents == {NodeStarted("n1"), ExecutionCompleted}

\* the UI thread runs _handle_event_sync on an event and update_execution
\* raises
DeliverRaises(event) ==
    /\ subscribed
    /\ Len(handled) < MaxEvents
    /\ Len(caught) < MaxFaults
    /\ ReachesGraphView(is_ready, event)
    /\ handled' = Append(handled, [seq |-> Len(handled) + 1, event |-> event])
    /\ applied' = Append(applied, [seq |-> Len(handled) + 1, event |-> event])
    /\ \E st \in UpdateExecutionRaises(GraphState, event) :
          /\ active_node' = st.active_node
          /\ execution_path' = st.execution_path
          /\ display' = st.display
    /\ caught' = Append(caught, "_handle_event_sync")
    /\ escaped' = escaped \cup HandleEventSyncExcept("update_execution")
    /\ UNCHANGED <<phase, is_ready, subscribed, loop_queue, pc, submitted,
                   logVars, sinkVars, lifeVars, prior>>

\* the try/except of LogPane.write_log
WriteLogExcept(raised) == {}

\* the queue without its k-th record
WithoutRecord(queue, k) ==
    SubSeq(queue, 1, k - 1) \o SubSeq(queue, k + 1, Len(queue))

\* _poll_logs in which the write of the k-th record raises inside
\* write_log: write_log catches it, the record is not shown and the loop
\* goes on
PollLogsWriteRaises ==
    /\ timers > 0
    /\ is_ready
    /\ Len(caught) < MaxFaults
    /\ \E k \in 1..Len(log_queue) :
          /\ ~IsNoise(log_queue[k])
          /\ log_view' = Drain(log_view, WithoutRecord(log_queue, k), LogPaneMounted)
    /\ log_queue' = <<>>
    /\ caught' = Append(caught, "write_log")
    /\ escaped' = escaped \cup WriteLogExcept("log.write")
    /\ UNCHANGED <<phase, is_ready, subscribed, graphVars, bridgeVars, logged,
                   sinkVars, lifeVars, prior>>

\* the try/except of _poll_logs
PollLogsExcept(raised) == {}

\* _poll_logs in which the loop body raises on the k-th record, outside
\* write_log: the records before it are done, the record is gone, the
\* loop ends and the rest stays queued for the next tick
PollLogsRaises ==
    /\ timers > 0
    /\ is_ready
    /\ Len(caught) < MaxFaults
    /\ \E k \in 1..Len(log_queue) :
          /\ ~IsNoise(log_queue[k])
          /\ log_view' = Drain(log_view, SubSeq(log_queue, 1, k - 1), LogPaneMounted)
          /\ log_queue' = SubSeq(log_queue, k + 1, Len(log_queue))
    /\ caught' = Append(caught, "_poll_logs")
    /\ escaped' = escaped \cup PollLogsExcept("format")
    /\ UNCHANGED <<phase, is_ready, subscribed, graphVars, bridgeVars, logged,
                   sinkVars, lifeVars, prior>>

\* the logging calls of the failure specification
FaultLogInputs == {input \in LifecycleLogInputs : input.level = INFO}

NextFaults ==
    \/ GraphOnMount
    \/ OnMount
    \/ InitRuntimeConnection
    \/ OnUnmount
    \/ Deliver(NodeStarted("n1"))
    \/ \E event \in FaultEvents : DeliverRaises(event)
    \/ (Len(submitted) + Len(caught) < MaxFaults /\ SubmitRaises("A", NodeStarted("n1")))
    \/ \E input \in FaultLogInputs : Push(input)
    \/ PollLogs
    \/ PollLogsWriteRaises
    \/ PollLogsRaises

SpecFaults == Init /\ [][NextFaults]_vars

\* on_mount called again on the running app
OnMountAgain ==
    /\ phase = "mounted"
    /\ starts < MaxStarts
    /\ OnMountBody
    /\ UNCHANGED phase

\* on_unmount called by hand: before the app was started, while it runs,
\* or after it was stopped
OnUnmountByHand ==
    /\ stops < MaxStops
    /\ OnUnmountBody
    /\ UNCHANGED phase

NextLifecycle ==
    \/ GraphOnMount
    \/ OnMount
    \/ OnMountAgain
    \/ InitRuntimeConnection
    \/ OnUnmount
    \/ OnUnmountByHand
    \/ \E input \in LifecycleLogInputs : Push(input)
    \/ PollLogs

SpecLifecycle == InitLifecycle /\ [][NextLifecycle]_vars

TypeOK ==
    /\ phase \in {"created", "composed", "mounted", "unmounted"}
    /\ is_ready \in BOOLEAN
    /\ active_node \in Nodes \cup {None}
    /\ Range(execution_path) \subseteq Nodes

\* ------------------------------------------------------------------------
\* Vocabulary of the properties
\* ------------------------------------------------------------------------

\* the step is a call of _handle_event_sync
HandledStep == Len(handled') = Len(handled) + 1

\* the event of that call
HandledEvent == handled'[Len(handled')].event

\* the step is a call of update_execution
AppliedStep == Len(applied') = Len(applied) + 1

\* the event of that call
AppliedEvent == applied'[Len(applied')].event

\* the events update_execution was called with, in order
AppliedEvents == [i \in 1..Len(applied) |-> applied[i].event]

NodeIdOf(event) == Get(event.data, "node_id", None)

\* NodeStarted{n} with a node id
IsNodeStarted(event) == event.type = NODE_STARTED /\ Truthy(NodeIdOf(event))

\* NodeCompleted{n} with a node id
IsNodeCompleted(event) == event.type = NODE_COMPLETED /\ Truthy(NodeIdOf(event))

\* the terminal status the display shows: its last completion or failure line
TerminalStatus(d) ==
    LET banners == {i \in 1..Len(d) : d[i].k \in {"complete", "failed"}}
    IN  IF banners = {} THEN [status |-> "none"]
        ELSE LET i == CHOOSE j \in banners : \A m \in banners : m <= j
             IN  IF d[i].k = "complete" THEN [status |-> "ok"]
                 ELSE [status |-> "failed", error |-> d[i].error]

\* an event the dashboard has no transition for
Unrecognized(event) ==
    IF ~HasAttr(event, "type") THEN TRUE
    ELSE IF ~HasAttr(event.type, "value") THEN TRUE
    ELSE IF ~StartsWith(event.type.value, {"execution", "node"}) THEN TRUE
    ELSE IF event.type \in {NODE_STARTED, NODE_COMPLETED} THEN ~Truthy(NodeIdOf(event))
    ELSE event.type \notin {EXECUTION_COMPLETED, EXECUTION_FAILED}

\* ------------------------------------------------------------------------
\* C1
\* ------------------------------------------------------------------------

\* C1, as stated: applying NodeStarted{n} sets active_node = n and appends n
\* to execution_path if and only if the path is empty or its last entry is
\* different from n.
C1_AppendIffLastDiffers ==
    [][(AppliedStep /\ IsNodeStarted(AppliedEvent)) =>
          LET n == NodeIdOf(AppliedEvent)
          IN  /\ active_node' = n
              /\ execution_path' =
                    IF execution_path = <<>> \/ Last(execution_path) # n
                    THEN Append(execution_path, n)
                    ELSE execution_path]_vars

\* C1, amended: applying NodeStarted{n} with a non-empty n sets
\* active_node = n and appends n to execution_path if and only if n occurs
\* nowhere in the path.
C1_AppendIffAbsent ==
    [][(AppliedStep /\ IsNodeStarted(AppliedEvent)) =>
          LET n == NodeIdOf(AppliedEvent)
          IN  /\ active_node' = n
              /\ execution_path' =
                    IF n \notin Range(execution_path)
                    THEN Append(execution_path, n)
                    ELSE execution_path]_vars

\* n1, n2 and n1 again were started: the path is [n1, n2] and n1 is active
C1_Witness ==
    /\ AppliedEvents = <<NodeStarted("n1"), NodeStarted("n2"), NodeStarted("n1")>>
    /\ execution_path = <<"n1", "n2">>
    /\ active_node = "n1"

\* ------------------------------------------------------------------------
\* C2
\* ------------------------------------------------------------------------

\* every applied event is a NodeStarted or a NodeCompleted with a node id
OnlyNodeEvents(evs) ==
    \A i \in 1..Len(evs) : IsNodeStarted(evs[i]) \/ IsNodeCompleted(evs[i])

\* positions of the NodeStarted events no later NodeCompleted of the same
\* id follows
Unmatched(evs) ==
    {i \in 1..Len(evs) :
        /\ IsNodeStarted(evs[i])
        /\ ~\E j \in (i + 1)..Len(evs) :
              IsNodeCompleted(evs[j]) /\ NodeIdOf(evs[j]) = NodeIdOf(evs[i])}

\* node id of the latest unmatched NodeStarted, or None
LatestUnmatched(evs) ==
    IF Unmatched(evs) = {} THEN None
    ELSE NodeIdOf(evs[CHOOSE i \in Unmatched(evs) : \A j \in Unmatched(evs) : j <= i])

\* positions of all NodeStarted events
Starts(evs) == {i \in 1..Len(evs) : IsNodeStarted(evs[i])}

\* node id of the latest NodeStarted if that one is unmatched, or None
LatestIfUnmatched(evs) ==
    IF Starts(evs) = {} THEN None
    ELSE LET i == CHOOSE k \in Starts(evs) : \A j \in Starts(evs) : j <= k
         IN  IF i \in Unmatched(evs) THEN NodeIdOf(evs[i]) ELSE None

\* C2, as stated: after a sequence of NodeStarted/NodeCompleted events,
\* active_node is the node id of the latest NodeStarted not matched by a
\* later NodeCompleted of the same id, or none when all are matched.
C2_ActiveIsLatestUnmatched ==
    OnlyNodeEvents(AppliedEvents) => active_node = LatestUnmatched(AppliedEvents)

\* C2, amended: after a sequence of NodeStarted/NodeCompleted events,
\* active_node is the node id of the latest NodeStarted of the sequence when
\* no later NodeCompleted of that id follows it, and none otherwise.
C2_ActiveIsLatestStartIfUnmatched ==
    OnlyNodeEvents(AppliedEvents) => active_node = LatestIfUnmatched(AppliedEvents)

\* n1 and n2 were started and n2 completed: n1 is unmatched, nothing is active
C2_Witness ==
    /\ AppliedEvents = <<NodeStarted("n1"), NodeStarted("n2"), NodeCompleted("n2")>>
    /\ active_node = None

\* ------------------------------------------------------------------------
\* C3
\* ------------------------------------------------------------------------

\* C3: applying NodeCompleted{n} when active_node = n sets active_node to
\* none and leaves execution_path unchanged.
C3_CompletedClearsActive ==
    [][(AppliedStep /\ IsNodeCompleted(AppliedEvent)
          /\ NodeIdOf(AppliedEvent) = active_node) =>
          (active_node' = None /\ execution_path' = execution_path)]_vars

\* n1 was started and completed
C3_Witness ==
    /\ AppliedEvents = <<NodeStarted("n1"), NodeCompleted("n1")>>
    /\ active_node = None
    /\ execution_path = <<"n1">>

\* ------------------------------------------------------------------------
\* C4
\* ------------------------------------------------------------------------

\* C4: applying NodeCompleted{n} when active_node is not n (another node or
\* none) changes neither active_node nor execution_path nor the display,
\* and with it the terminal status.
C4_StaleCompletedIsNoOp ==
    [][(AppliedStep /\ IsNodeCompleted(AppliedEvent)
          /\ NodeIdOf(AppliedEvent) # active_node) =>
          /\ active_node' = active_node
          /\ execution_path' = execution_path
          /\ display' = display
          /\ TerminalStatus(display') = TerminalStatus(display)]_vars

\* n1 is active, a failure was shown, and a completion of n2 arrived
C4_Witness ==
    /\ Len(applied) = 3
    /\ AppliedEvents[1] = ExecutionFailed("boom")
    /\ AppliedEvents[2] = NodeStarted("n1")
    /\ AppliedEvents[3] = NodeCompleted("n2")
    /\ active_node = "n1"
    /\ execution_path = <<"n1">>

\* ------------------------------------------------------------------------
\* C5
\* ------------------------------------------------------------------------

\* C5: applying ExecutionCompleted sets active_node to none, makes ok the
\* terminal status shown, and leaves execution_path unchanged.
C5_ExecutionCompleted ==
    [][(AppliedStep /\ AppliedEvent.type = EXECUTION_COMPLETED) =>
          /\ active_node' = None
          /\ TerminalStatus(display') = [status |-> "ok"]
          /\ execution_path' = execution_path]_vars

\* n1 and n2 were started, then the execution completed
C5_Witness ==
    /\ AppliedEvents = <<NodeStarted("n1"), NodeStarted("n2"), ExecutionCompleted>>
    /\ active_node = None
    /\ TerminalStatus(display) = [status |-> "ok"]
    /\ execution_path = <<"n1", "n2">>

\* ------------------------------------------------------------------------
\* C6
\* ------------------------------------------------------------------------

\* C6: applying ExecutionFailed{error} sets active_node to none, makes
\* failed(error), with the error of the event, the terminal status shown,
\* leaves execution_path unchanged and leaves the readiness flag, the gate
\* of event handling and log polling, as it was.
C6_ExecutionFailed ==
    [][(AppliedStep /\ AppliedEvent.type = EXECUTION_FAILED
          /\ "error" \in DOMAIN AppliedEvent.data) =>
          /\ active_node' = None
          /\ TerminalStatus(display') =
                [status |-> "failed", error |-> AppliedEvent.data["error"]]
          /\ execution_path' = execution_path
          /\ is_ready' = is_ready
          /\ is_ready]_vars

\* a failure arrived first: failed("boom") is shown, nothing is active, the
\* path is empty and the dashboard is still ready
C6_Witness ==
    /\ AppliedEvents = <<ExecutionFailed("boom")>>
    /\ TerminalStatus(display) = [status |-> "failed", error |-> "boom"]
    /\ active_node = None
    /\ execution_path = <<>>
    /\ is_ready

\* ------------------------------------------------------------------------
\* C7
\* ------------------------------------------------------------------------

\* C7: handling an unrecognized event (no type, a type without value, a
\* type outside node_*/execution_*, another node_*/execution_* type, or a
\* NodeStarted/NodeCompleted without node id) changes neither active_node
\* nor execution_path nor the display.
C7_UnrecognizedIsNoOp ==
    [][(HandledStep /\ Unrecognized(HandledEvent)) =>
          /\ active_node' = active_node
          /\ execution_path' = execution_path
          /\ display' = display]_vars

\* n1 is active and a NodeStarted without node id went through
\* update_execution
C7_Witness ==
    /\ Len(applied) = 2
    /\ AppliedEvents[1] = NodeStarted("n1")
    /\ AppliedEvents[2] = [type |-> NODE_STARTED, data |-> <<>>]
    /\ active_node = "n1"
    /\ execution_path = <<"n1">>

\* ------------------------------------------------------------------------
\* C8
\* ------------------------------------------------------------------------

NoAdjacentDuplicates(path) == \A i \in 1..(Len(path) - 1) : path[i] # path[i + 1]

\* C8: execution_path never holds two adjacent equal node ids, and a
\* NodeStarted{n} whose n is the last path entry leaves the path as it is
\* and sets active_node = n.
C8_NoAdjacentDuplicates ==
    /\ []NoAdjacentDuplicates(execution_path)
    /\ [][(AppliedStep /\ IsNodeStarted(AppliedEvent)
             /\ execution_path # <<>>
             /\ Last(execution_path) = NodeIdOf(AppliedEvent)) =>
             (execution_path' = execution_path
                /\ active_node' = NodeIdOf(AppliedEvent))]_vars

\* n1 was started, completed and started again
C8_Witness ==
    /\ AppliedEvents = <<NodeStarted("n1"), NodeCompleted("n1"), NodeStarted("n1")>>
    /\ execution_path = <<"n1">>
    /\ active_node = "n1"

\* ------------------------------------------------------------------------
\* C9
\* ------------------------------------------------------------------------

\* C9: in every state and for every node n, applying NodeStarted{n} twice
\* in a row gives the same active_node and execution_path as applying it
\* once.
C9_NodeStartedIdempotent ==
    \A n \in Nodes :
        LET once == UpdateExecution(GraphState, NodeStarted(n))
            twice == UpdateExecution(once, NodeStarted(n))
        IN  /\ twice.active_node = once.active_node
            /\ twice.execution_path = once.execution_path

\* n2 was started, then n1 twice in a row
C9_Witness ==
    /\ AppliedEvents = <<NodeStarted("n2"), NodeStarted("n1"), NodeStarted("n1")>>
    /\ execution_path = <<"n2", "n1">>
    /\ active_node = "n1"

\* ------------------------------------------------------------------------
\* C10
\* ------------------------------------------------------------------------

\* positions in submitted of the calls that handed their event off
HandedOff == {i \in 1..Len(submitted) : submitted[i].handed_off}

\* C10: the UI thread handles the handed-off events one by one in the order
\* of the calls of the subscription handler, whatever the producer, and the
\* events applied to the graph view follow that same order.
C10_AppliedInSubmissionOrder ==
    /\ \A i \in 1..Len(handled) :
          /\ handled[i].seq \in HandedOff
          /\ handled[i].event = submitted[handled[i].seq].event
          /\ Cardinality({j \in HandedOff : j < handled[i].seq}) = i - 1
    /\ \A i, j \in 1..Len(applied) : i < j => applied[i].seq < applied[j].seq
    /\ \A i \in 1..Len(applied) :
          applied[i].event = submitted[applied[i].seq].event

\* producers A and B submitted A1, B1, A2, B2 and all four were applied
C10_Witness ==
    /\ Len(submitted) = 4
    /\ [i \in 1..4 |-> submitted[i].producer] = <<"A", "B", "A", "B">>
    /\ [i \in 1..Len(applied) |-> applied[i].seq] = <<1, 2, 3, 4>>
    /\ AppliedEvents = [i \in 1..4 |-> submitted[i].event]

\* ------------------------------------------------------------------------
\* C11
\* ------------------------------------------------------------------------

\* the call with number i has its callback waiting in the UI thread's queue
Pending(i) == \E k \in 1..Len(loop_queue) : loop_queue[k].seq = i

\* number of calls of _handle_event_sync for the call with number i
HandledCount(i) == Cardinality({k \in 1..Len(handled) : handled[k].seq = i})

\* number of calls of update_execution for the call with number i
AppliedCount(i) == Cardinality({k \in 1..Len(applied) : applied[k].seq = i})

C12_ProducerNeverWaits ==
    \A p \in Producers :
        ~(pc[p] = "waiting"
            /\ \E k \in 1..Len(loop_queue) : loop_queue[k].producer = p)

\* ------------------------------------------------------------------------
\* Vocabulary of the log properties
\* ------------------------------------------------------------------------

\* the step is a logging call
PushStep == Len(logged') = Len(logged) + 1

\* the logging call of that step
PushedCall == logged'[Len(logged')]

\* the record a logging call puts into the queue
RecordOf(call) == [name |-> call.name, level |-> call.level, msg |-> call.msg]

\* the step is a drain: _poll_logs takes records out of the queue
DrainStep == logged' = logged /\ log_queue # <<>> /\ log_queue' # log_queue

\* the prefixes the claims call noisy
NoisyName(name) == name[1] \in {"textual", "LiteLLM", "litellm"}

\* messages of the records of a sequence that are not noisy, in order
RECURSIVE QuietMessages(_)
QuietMessages(records) ==
    IF records = <<>> THEN <<>>
    ELSE (IF NoisyName(Head(records).name) THEN <<>> ELSE <<Head(records).msg>>)
         \o QuietMessages(Tail(records))

\* the logging calls that were put into the queue, in order
RECURSIVE EnqueuedCalls(_)
EnqueuedCalls(calls) ==
    IF calls = <<>> THEN <<>>
    ELSE (IF Head(calls).enqueued THEN <<Head(calls)>> ELSE <<>>)
         \o EnqueuedCalls(Tail(calls))

\* ------------------------------------------------------------------------
\* C13
\* ------------------------------------------------------------------------

\* C13, as stated: the relay has a bound below the number of pushes made,
\* which the queue never exceeds, the oldest record making room.
C13_BoundedDropOldest ==
    \E bound \in 1..(MaxPush - 1) : Len(log_queue) <= bound

\* C13, amended: the relay has no bound and drops nothing: a push that is
\* accepted appends its record and keeps every record queued, so that the
\* queue holds, in push order, all records accepted since the last drain.
C13_UnboundedKeepsAll ==
    /\ [][PushStep =>
            log_queue' = IF PushedCall.enqueued
                         THEN Append(log_queue, RecordOf(PushedCall))
                         ELSE log_queue]_vars
    /\ [](\A i \in 1..Len(log_queue) :
            LET calls == EnqueuedCalls(logged)
            IN  /\ Len(log_queue) <= Len(calls)
                /\ log_queue[i] = RecordOf(calls[Len(calls) - Len(log_queue) + i]))

\* three records were pushed with no drain and all three are queued
C13_Witness ==
    /\ Len(logged) = 3
    /\ log_view = <<>>
    /\ [i \in 1..Len(log_queue) |-> log_queue[i].msg] = <<1, 2, 3>>

\* ------------------------------------------------------------------------
\* C14
\* ------------------------------------------------------------------------

\* C14: a drain empties the queue and writes its records in queue order,
\* and over pushes and drains every accepted record that is not filtered is
\* either still queued or written to the view exactly once, in push order.
C14_DrainFifoExactlyOnce ==
    /\ [][DrainStep =>
            (log_queue' = <<>>
               /\ log_view' = log_view \o QuietMessages(log_queue))]_vars
    /\ [](log_view \o QuietMessages(log_queue)
             = QuietMessages(EnqueuedCalls(logged)))

\* two records were drained to the view and a third pushed after the drain
C14_Witness ==
    /\ Len(logged) = 3
    /\ \A i \in 1..3 : logged[i].name = <<"framework">> /\ logged[i].enqueued
    /\ log_view = <<1, 2>>
    /\ [i \in 1..Len(log_queue) |-> log_queue[i].msg] = <<3>>

\* ------------------------------------------------------------------------
\* C15
\* ------------------------------------------------------------------------

\* the relay's sink is installed and the call has the level the sink takes
SinkTakes(call) ==
    /\ queue_handler # 0
    /\ QueueHandler(queue_handler) \in root_handlers
    /\ call.level >= INFO

\* no message of a noisy logger is in the view, and a drain writes the
\* other records of the queue in queue order
DrainFilters ==
    /\ [](\A i \in 1..Len(log_view) : ~NoisyName(logged[log_view[i]].name))
    /\ [][DrainStep => log_view' = log_view \o QuietMessages(log_queue)]_vars

\* C15, as stated: a record of a logger with a noisy prefix (textual,
\* LiteLLM, litellm) is accepted into the queue by push and removed
\* unwritten by the drain; the other drained records are written in order.
C15_NoiseFilteredAtDrain ==
    /\ [][(PushStep /\ NoisyName(PushedCall.name) /\ SinkTakes(PushedCall)) =>
            log_queue' = Append(log_queue, RecordOf(PushedCall))]_vars
    /\ DrainFilters

\* C15, amended: a record of a logger with a noisy prefix is accepted into
\* the queue by push and removed unwritten by the drain, except for the
\* logger "LiteLLM" and its children, whose records never reach the queue;
\* the other drained records are written in order.
C15_NoiseFilteredAtDrainButLiteLLM ==
    /\ [][(PushStep /\ NoisyName(PushedCall.name) /\ SinkTakes(PushedCall)) =>
            log_queue' = IF InLiteLLMTree(PushedCall.name)
                         THEN log_queue
                         ELSE Append(log_queue, RecordOf(PushedCall))]_vars
    /\ DrainFilters

\* a textual record and a litellm record were queued and drained unwritten,
\* the framework record between them was written
C15_Witness ==
    /\ Len(logged) = 3
    /\ logged[1].name = <<"textual">> /\ logged[1].enqueued
    /\ logged[2].name = <<"framework">> /\ logged[2].enqueued
    /\ logged[3].name = <<"litellm">> /\ logged[3].enqueued
    /\ log_queue = <<>>
    /\ log_view = <<2>>

\* ------------------------------------------------------------------------
\* Vocabulary of the lifecycle properties
\* ------------------------------------------------------------------------

\* the step is a call of on_mount
StartStep == starts' = starts + 1

\* the step is a call of on_unmount
StopStep == stops' = stops + 1

\* the queue handlers installed on the root logger
InstalledSinks == {h \in root_handlers : h.kind = "queue"}

\* ------------------------------------------------------------------------
\* C16
\* ------------------------------------------------------------------------

\* C16, as stated: after the start path ran twice (and the scheduled
\* connections were made) there is one subscription, one poll timer and one
\* installed log sink.
C16_StartIdempotent ==
    (starts = 2 /\ stops = 0 /\ init_pending = 0) =>
        /\ subscriptions = 1
        /\ timers = 1
        /\ Cardinality(InstalledSinks) = 1

\* C16, amended: start is not idempotent for timers and subscriptions: every
\* call of the start path adds one poll timer and schedules one more
\* subscription; only the log sink stays single, the call replacing every
\* handler of the root logger by its own new sink.
C16_StartAddsTimerAndSubscription ==
    /\ [](timers = starts /\ subscriptions + init_pending = starts)
    /\ [][StartStep =>
            (/\ timers' = timers + 1
             /\ init_pending' = init_pending + 1
             /\ root_handlers' = {QueueHandler(starts')})]_vars
    /\ []((starts > 0 /\ stops = 0) => InstalledSinks = {QueueHandler(starts)})

\* the start path ran twice and both connections were made
C16_Witness ==
    /\ starts = 2
    /\ stops = 0
    /\ init_pending = 0
    /\ subscriptions = 2
    /\ timers = 2
    /\ root_handlers = {QueueHandler(2)}

\* ------------------------------------------------------------------------
\* C17
\* ------------------------------------------------------------------------

\* C17: a call of stop, in any state, lets no exception out and leaves the
\* subscription obtained at start revoked.
C17_StopRevokesSubscription ==
    [][StopStep => (escaped' = {} /\ subscriptions' = 0)]_vars

\* ------------------------------------------------------------------------
\* C18
\* ------------------------------------------------------------------------

\* C18: once the app is stopped no producer call reaches the handler, no
\* event is applied and no log record is written to the view; an event handed
\* off before the stop is applied as a whole or not at all.
C18_NothingAfterStop ==
    /\ [][phase = "unmounted" =>
            (/\ submitted' = submitted
             /\ applied' = applied
             /\ log_view' = log_view)]_vars
    /\ [][HandledStep =>
            \/ AppliedStep
            \/ UNCHANGED <<applied, active_node, execution_path, display>>]_vars

\* ------------------------------------------------------------------------
\* C19
\* ------------------------------------------------------------------------

\* C19, as stated: start puts the relay's sink in place of the root
\* logger's handlers and stop restores the handlers and the level the root
\* logger had before start.
C19_StopRestoresSinks ==
    /\ [][StartStep => root_handlers' = {QueueHandler(starts')}]_vars
    /\ [][(StopStep /\ starts > 0) =>
            (root_handlers' = prior.handlers /\ root_level' = prior.level)]_vars

\* C19, amended: start puts the relay's sink in place of the root logger's
\* handlers, sets the root level to INFO and silences the LiteLLM logger;
\* stop only takes the relay's sink away: the handlers present before start
\* are not put back, and the levels stay as start set them.
C19_StopOnlyRemovesOwnSink ==
    /\ [][StartStep =>
            (root_handlers' = {QueueHandler(starts')} /\ root_level' = INFO)]_vars
    /\ [][StopStep =>
            (/\ root_handlers' = root_handlers \ {QueueHandler(queue_handler)}
             /\ root_level' = root_level
             /\ litellm_level' = litellm_level
             /\ litellm_propagate' = litellm_propagate)]_vars
    /\ []((starts > 0 /\ ~is_ready) =>
            (/\ root_handlers = {}
             /\ root_level = INFO
             /\ litellm_level = CRITICAL
             /\ ~litellm_propagate))

\* a session that found a stream handler on the root logger was started
\* and stopped
C19_Witness ==
    /\ prior = [handlers |-> {StreamHandler}, level |-> WARNING]
    /\ starts = 1
    /\ stops = 1
    /\ ~is_ready
    /\ root_handlers = {}
    /\ root_level = INFO

\* ------------------------------------------------------------------------
\* C20
\* ------------------------------------------------------------------------

PathLines == {i \in 1..Len(display) : display[i].k = "path"}

\* C21: execution_path holds every node id at most once and only grows at
\* its end: a step leaves it as it is or is NodeStarted{n}, with n nowhere
\* in the path, appending n; the display shows the last five entries of
\* the path and the stored path keeps all of them.
C21_PathUniqueAppendOnly ==
    /\ [](\A i, j \in 1..Len(execution_path) :
            execution_path[i] = execution_path[j] => i = j)
    /\ [][\/ execution_path' = execution_path
          \/ /\ AppliedStep
             /\ IsNodeStarted(AppliedEvent)
             /\ NodeIdOf(AppliedEvent) \notin Range(execution_path)
             /\ execution_path' = Append(execution_path, NodeIdOf(AppliedEvent))]_vars
    /\ [](execution_path # <<>> =>
            (/\ PathLines # {}
             /\ \A i \in PathLines :
                   display[i].tail = LastN(execution_path, PathTail)))

\* six nodes were started: the path holds all six and the display shows
\* the last five
C21_Witness ==
    /\ Len(execution_path) = PathTail + 1
    /\ \E i \in PathLines :
          /\ Len(display[i].tail) = PathTail
          /\ display[i].tail = Tail(execution_path)
====
